---- MODULE Spec2Model ----
(***************************************************************************)
(* Reviews subsystem of fastapi_eccommerce: app/routers/reviews.py and     *)
(* app/models/reviews.py.  The reviews table and the products' rating      *)
(* column are the state; create_review and delete_review are modelled      *)
(* both as whole handlers (Spec) and as the sequence of their awaited      *)
(* datastore statements (SpecC), get_all_rewviews as a read.               *)
(***************************************************************************)
EXTENDS Integers, Sequences, FiniteSets, TLC

\* ------------------------------------------------------------------ bounds
\* Rows the reviews table may hold under Spec.
MaxReviews == 2
\* Requests served under SpecC.
MaxRequests == 4

\* ------------------------------------------------------------ Optional[T]
None == <<>>
Some(x) == <<x>>

\* ------------------------------------------------------- the environment
\* Principals get_current_buyer may hand to a handler: an id and a role.
Users ==
    { [id |-> 1, role |-> "buyer"],
      [id |-> 2, role |-> "buyer"],
      [id |-> 3, role |-> "buyer"],
      [id |-> 9, role |-> "admin"] }

\* create_review is for buyers.
Buyers == { u \in Users : u.role = "buyer" }

\* The products table: 1 and 2 are active, 3 is inactive, 4 does not exist.
Products ==
    { [id |-> 1, is_active |-> TRUE],
      [id |-> 2, is_active |-> TRUE],
      [id |-> 3, is_active |-> FALSE] }

ProductIds == { p.id : p \in Products }

\* Request bodies (ReviewCreate): product_id, grade, comment.  Grades are
\* the two ends of [1, 5] and their outer neighbours (SpecR has every grade);
\* the handlers never read the comment, they only store it.
ProductIdInputs == 1 .. 4
GradeInputs == { 0, 1, 5, 6 }
CommentInputs == { Some("text") }

ReviewCreate ==
    [ product_id : ProductIdInputs, grade : GradeInputs, comment : CommentInputs ]

\* Path parameter of DELETE /reviews/{review_id}.
ReviewIdInputs == 1 .. (MaxReviews + 1)

\* Callers under Spec: two buyers and the admin.
SpecBuyers == { u \in Buyers : u.id <= 2 }
SpecCallers == SpecBuyers \cup (Users \ Buyers)

\* Inputs under SpecR: every buyer grades product 1, the admin deletes.
ReviewCreateR ==
    [ product_id : { 1 }, grade : 1 .. 5, comment : CommentInputs ]
ReviewIdInputsR == 1 .. Cardinality(Buyers)

\* Inputs under SpecC: two buyers and the admin, an active and the inactive
\* product, a low, a high and an invalid grade.
ProcIds == { 1, 2 }
ReviewCreateC ==
    [ product_id : { 1, 3 }, grade : { 2, 5, 6 }, comment : CommentInputs ]
ReviewIdInputsC == 1 .. 2

\* ------------------------------------------------------------------ state
VARIABLES
    reviews,    \* the reviews table, a row's id being its position
    rating,     \* products.rating, per product id
    last,       \* the last request handled as a whole, with its answer
    procs,      \* the requests in flight, statement by statement
    hist        \* bookkeeping of the statement-level run: requests started,
                \* whether two overlapped, and the commit count at which each
                \* product's reviews last changed and from which its rating
                \* was last computed (no handler reads it)

vars == << reviews, rating, last, procs, hist >>

\* ------------------------------------------------- queries and statements
\* The product select without its is_active filter.
product_result_any(product_id) ==
    { p \in Products : p.id = product_id }

\* select(ProductModel).where(id == product_id, is_active == True)
product_result(product_id) ==
    { p \in Products : p.id = product_id /\ p.is_active }

\* The duplicate check with its is_active test inverted.
review_result_inactive(rs, current_user, review) ==
    { i \in DOMAIN rs : rs[i].user_id = current_user.id /\ ~rs[i].is_active }

\* select(ReviewModel).where(user_id == current_user.id, is_active == True)
review_result(rs, current_user, review) ==
    { i \in DOMAIN rs : rs[i].user_id = current_user.id /\ rs[i].is_active }

\* review.grade < 1 or review.grade > 5
grade_invalid(review) ==
    review.grade < 1 \/ review.grade > 5

\* ReviewModel(**review.model_dump(), user_id=current_user.id); db.add; commit
db_review(rs, current_user, review) ==
    [ id         |-> Len(rs) + 1,
      user_id    |-> current_user.id,
      product_id |-> review.product_id,
      comment    |-> review.comment,
      grade      |-> review.grade,
      is_active  |-> TRUE ]

db_add(rs, current_user, review) ==
    Append(rs, db_review(rs, current_user, review))

\* The avg select without its is_active filter.
RECURSIVE SumCountAny(_, _, _)
SumCountAny(rs, product_id, i) ==
    IF i = 0 THEN << 0, 0 >>
    ELSE LET rest == SumCountAny(rs, product_id, i - 1)
         IN  IF rs[i].product_id = product_id
             THEN << rest[1] + rs[i].grade, rest[2] + 1 >>
             ELSE rest

rating_avg_any(rs, product_id) ==
    LET sc == SumCountAny(rs, product_id, Len(rs))
    IN  IF sc[2] = 0 THEN None ELSE Some(sc)

\* select(func.avg(grade)).where(product_id == ..., is_active == True):
\* None over no rows, otherwise the exact mean as << sum, count >>.
RECURSIVE SumCount(_, _, _)
SumCount(rs, product_id, i) ==
    IF i = 0 THEN << 0, 0 >>
    ELSE LET rest == SumCount(rs, product_id, i - 1)
         IN  IF rs[i].product_id = product_id /\ rs[i].is_active
             THEN << rest[1] + rs[i].grade, rest[2] + 1 >>
             ELSE rest

rating_avg(rs, product_id) ==
    LET sc == SumCount(rs, product_id, Len(rs))
    IN  IF sc[2] = 0 THEN None ELSE Some(sc)

\* Rounding with an exact half taken upwards.
round_half_up(s, n) ==
    (2 * s + n) \div (2 * n)

\* Python's round(x) of x = s / n: nearest integer, an exact half to even.
round(s, n) ==
    LET q == s \div n
        r == s % n
    IN  IF 2 * r < n THEN q
        ELSE IF 2 * r > n THEN q + 1
        ELSE IF q % 2 = 0 THEN q ELSE q + 1

\* int(round(rating_avg)) if rating_avg is not None else None
rating_value(avg) ==
    IF avg = None THEN None ELSE Some(round(avg[1][1], avg[1][2]))

\* The rating update without its where clause.
update_rating_all(rt, product_id, value) ==
    [ p \in DOMAIN rt |-> value ]

\* update(ProductModel).where(id == product_id).values(rating=rating_value)
update_rating(rt, product_id, value) ==
    [ p \in DOMAIN rt |-> IF p = product_id THEN value ELSE rt[p] ]

\* The review select without its is_active filter.
delete_review_result_any(rs, review_id) ==
    { i \in DOMAIN rs : rs[i].id = review_id }

\* select(ReviewModel).where(id == review_id, is_active == True)
delete_review_result(rs, review_id) ==
    { i \in DOMAIN rs : rs[i].id = review_id /\ rs[i].is_active }

\* The ownership select without its admin alternative.
user_result_owner_only(rs, review_id, current_user) ==
    { i \in DOMAIN rs :
        rs[i].id = review_id /\ rs[i].is_active /\ rs[i].user_id = current_user.id }

\* ... .where(or_(user_id == current_user.id, current_user.role == 'admin'))
user_result(rs, review_id, current_user) ==
    { i \in delete_review_result(rs, review_id) :
        rs[i].user_id = current_user.id \/ current_user.role = "admin" }

\* The is_active update matching the review's product instead of its id.
deactivate_product(rs, review_id) ==
    [ i \in DOMAIN rs |->
        IF \E k \in DOMAIN rs : rs[k].id = review_id /\ rs[k].product_id = rs[i].product_id
        THEN [ rs[i] EXCEPT !.is_active = FALSE ]
        ELSE rs[i] ]

\* update(ReviewModel).where(id == review_id).values(is_active=False)
deactivate(rs, review_id) ==
    [ i \in DOMAIN rs |->
        IF rs[i].id = review_id THEN [ rs[i] EXCEPT !.is_active = FALSE ]
        ELSE rs[i] ]

\* select(ReviewModel).where(is_active == True)
get_all_rewviews_result(rs) ==
    SelectSeq(rs, LAMBDA r : r.is_active)

\* -------------------------------------------------------------- responses
NoUser == [ id |-> 0, role |-> "none" ]
NoReview == [ product_id |-> 0, grade |-> 0, comment |-> None ]

\* A handled request and the answer it got: the caller, the body (create)
\* or the path parameter (delete), the HTTP status, and the id of the review
\* the answer carries (create) or names (delete).
Response(op, current_user, review, review_id, status) ==
    [ op |-> op, user |-> current_user, review |-> review,
      review_id |-> review_id, status |-> status ]

\* A request slot: idle, at an awaited statement, or done with its status.
Proc(pc, op, user, review, review_id, avg, read_at, status) ==
    [ pc |-> pc, op |-> op, user |-> user, review |-> review,
      review_id |-> review_id, avg |-> avg, read_at |-> read_at,
      status |-> status ]

Idle == Proc("idle", "none", NoUser, NoReview, 0, None, 0, 0)
Done(op, status) == Proc("done", op, NoUser, NoReview, 0, None, 0, status)

Init ==
    /\ reviews = << >>
    /\ rating = [ p \in ProductIds |-> None ]
    /\ last = Response("none", NoUser, NoReview, 0, 0)
    /\ procs = [ i \in ProcIds |-> Idle ]
    /\ hist = [ started    |-> 0,
                overlapped |-> FALSE,
                commits    |-> 0,
                changed    |-> [ p \in ProductIds |-> 0 ],
                written    |-> [ p \in ProductIds |-> 0 ] ]

\* ------------------------------------------------- handlers run as a whole
create_review(current_user, review) ==
    /\ IF product_result(review.product_id) = {}
       THEN /\ last' = Response("create", current_user, review, 0, 404)
            /\ UNCHANGED << reviews, rating >>
       ELSE IF review_result(reviews, current_user, review) # {}
       THEN /\ last' = Response("create", current_user, review, 0, 409)
            /\ UNCHANGED << reviews, rating >>
       ELSE IF grade_invalid(review)
       THEN /\ last' = Response("create", current_user, review, 0, 422)
            /\ UNCHANGED << reviews, rating >>
       ELSE /\ reviews' = db_add(reviews, current_user, review)
            /\ rating' = update_rating(rating, review.product_id,
                            rating_value(rating_avg(reviews', review.product_id)))
            /\ last' = Response("create", current_user, review, Len(reviews'), 201)
    /\ UNCHANGED << procs, hist >>

delete_review(current_user, review_id) ==
    /\ IF delete_review_result(reviews, review_id) = {}
       THEN /\ last' = Response("delete", current_user, NoReview, review_id, 404)
            /\ UNCHANGED << reviews, rating >>
       ELSE IF user_result(reviews, review_id, current_user) = {}
       THEN /\ last' = Response("delete", current_user, NoReview, review_id, 403)
            /\ UNCHANGED << reviews, rating >>
       ELSE LET review == reviews[CHOOSE i \in delete_review_result(reviews, review_id) : TRUE]
            IN  /\ reviews' = deactivate(reviews, review_id)
                /\ rating' = update_rating(rating, review.product_id,
                                rating_value(rating_avg(reviews', review.product_id)))
                /\ last' = Response("delete", current_user, NoReview, review_id, 200)
    /\ UNCHANGED << procs, hist >>

get_all_rewviews ==
    /\ last' = Response("list", NoUser, NoReview,
                        Len(get_all_rewviews_result(reviews)), 200)
    /\ UNCHANGED << reviews, rating, procs, hist >>

Next ==
    \/ \E u \in SpecBuyers, review \in ReviewCreate :
          create_review(u, review) /\ Len(reviews') <= MaxReviews
    \/ \E u \in SpecCallers, review_id \in ReviewIdInputs : delete_review(u, review_id)
    \/ get_all_rewviews

Spec == Init /\ [][Next]_vars

\* Rating arithmetic: the buyers grade product 1 one after the other, then
\* the admin deletes reviews.  Only the requests that are accepted, the ones
\* that recompute a rating, are taken.
NextR ==
    \/ \E u \in Buyers, review \in ReviewCreateR :
          /\ \A i \in DOMAIN reviews : reviews[i].is_active
          /\ create_review(u, review)
          /\ last'.status = 201
    \/ \E u \in Users \ Buyers, review_id \in ReviewIdInputsR :
          delete_review(u, review_id) /\ last'.status = 200

SpecR == Init /\ [][NextR]_vars

\* ------------------------------------- handlers run statement by statement
\* Each action is one awaited datastore statement of a handler (a select, or
\* a write with its commit) together with the Python code up to the next
\* await; statements of different requests interleave freely, and every
\* select sees what has been committed by then (each request has a session
\* of its own, and nothing locks a row across statements).
InFlight(i) == procs[i].pc \notin { "idle", "done" }

Started(i) ==
    [ hist EXCEPT !.started = @ + 1,
                  !.overlapped = @ \/ \E j \in ProcIds \ { i } : InFlight(j) ]

\* create_review, lines 43-47: the product select, 404 when it finds nothing.
create_select_product(i, current_user, review) ==
    /\ ~InFlight(i)
    /\ hist.started < MaxRequests
    /\ hist' = Started(i)
    /\ procs' = [ procs EXCEPT ![i] =
          IF product_result(review.product_id) = {}
          THEN Done("create", 404)
          ELSE Proc("create_check", "create", current_user, review, 0, None, 0, 0) ]
    /\ UNCHANGED << reviews, rating, last >>

\* lines 49-57: the select of the caller's active reviews, 409 when it finds
\* one; then the grade check, 422.
create_select_review(i) ==
    /\ procs[i].pc = "create_check"
    /\ procs' = [ procs EXCEPT ![i] =
          IF review_result(reviews, procs[i].user, procs[i].review) # {}
          THEN Done("create", 409)
          ELSE IF grade_invalid(procs[i].review)
          THEN Done("create", 422)
          ELSE [ procs[i] EXCEPT !.pc = "create_insert" ] ]
    /\ UNCHANGED << reviews, rating, last, hist >>

\* lines 59-61: db.add(db_review) and commit.
create_commit_review(i) ==
    /\ procs[i].pc = "create_insert"
    /\ reviews' = db_add(reviews, procs[i].user, procs[i].review)
    /\ procs' = [ procs EXCEPT ![i] =
          [ procs[i] EXCEPT !.pc = "create_avg", !.review_id = Len(reviews') ] ]
    /\ hist' = [ hist EXCEPT !.commits = @ + 1,
                             !.changed[procs[i].review.product_id] = hist.commits + 1 ]
    /\ UNCHANGED << rating, last >>

\* lines 64-71: the avg select and rating_value.
create_select_avg(i) ==
    /\ procs[i].pc = "create_avg"
    /\ procs' = [ procs EXCEPT ![i] =
          [ procs[i] EXCEPT !.pc = "create_update",
                            !.avg = rating_avg(reviews, procs[i].review.product_id),
                            !.read_at = hist.commits ] ]
    /\ UNCHANGED << reviews, rating, last, hist >>

\* lines 74-82: the rating update and commit; the refresh only reads.
create_commit_rating(i) ==
    /\ procs[i].pc = "create_update"
    /\ rating' = update_rating(rating, procs[i].review.product_id,
                               rating_value(procs[i].avg))
    /\ hist' = [ hist EXCEPT !.written[procs[i].review.product_id] = procs[i].read_at ]
    /\ procs' = [ procs EXCEPT ![i] = Done("create", 201) ]
    /\ UNCHANGED << reviews, last >>

\* delete_review, lines 94-98: the select of the active review, 404 when it
\* finds nothing; the row found is kept as `review`.
delete_select_review(i, current_user, review_id) ==
    /\ ~InFlight(i)
    /\ hist.started < MaxRequests
    /\ hist' = Started(i)
    /\ procs' = [ procs EXCEPT ![i] =
          IF delete_review_result(reviews, review_id) = {}
          THEN Done("delete", 404)
          ELSE LET row == reviews[CHOOSE k \in delete_review_result(reviews, review_id) : TRUE]
               IN  Proc("delete_check", "delete", current_user,
                        [ product_id |-> row.product_id, grade |-> row.grade,
                          comment |-> row.comment ],
                        review_id, None, 0, 0) ]
    /\ UNCHANGED << reviews, rating, last >>

\* lines 101-105: the select with the owner-or-admin filter, 403.
delete_select_user(i) ==
    /\ procs[i].pc = "delete_check"
    /\ procs' = [ procs EXCEPT ![i] =
          IF user_result(reviews, procs[i].review_id, procs[i].user) = {}
          THEN Done("delete", 403)
          ELSE [ procs[i] EXCEPT !.pc = "delete_update" ] ]
    /\ UNCHANGED << reviews, rating, last, hist >>

\* lines 107-111: the is_active update and commit; the refresh only reads.
delete_commit_review(i) ==
    /\ procs[i].pc = "delete_update"
    /\ reviews' = deactivate(reviews, procs[i].review_id)
    /\ procs' = [ procs EXCEPT ![i] = [ procs[i] EXCEPT !.pc = "delete_avg" ] ]
    /\ hist' = [ hist EXCEPT !.commits = @ + 1,
                             !.changed[procs[i].review.product_id] = hist.commits + 1 ]
    /\ UNCHANGED << rating, last >>

\* lines 114-121: the avg select and rating_value.
delete_select_avg(i) ==
    /\ procs[i].pc = "delete_avg"
    /\ procs' = [ procs EXCEPT ![i] =
          [ procs[i] EXCEPT !.pc = "delete_rating",
                            !.avg = rating_avg(reviews, procs[i].review.product_id),
                            !.read_at = hist.commits ] ]
    /\ UNCHANGED << reviews, rating, last, hist >>

\* lines 124-131: the rating update and commit.
delete_commit_rating(i) ==
    /\ procs[i].pc = "delete_rating"
    /\ rating' = update_rating(rating, procs[i].review.product_id,
                               rating_value(procs[i].avg))
    /\ hist' = [ hist EXCEPT !.written[procs[i].review.product_id] = procs[i].read_at ]
    /\ procs' = [ procs EXCEPT ![i] = Done("delete", 200) ]
    /\ UNCHANGED << reviews, last >>

NextC ==
    \/ \E i \in ProcIds, u \in SpecBuyers, review \in ReviewCreateC :
          create_select_product(i, u, review)
    \/ \E i \in ProcIds : create_select_review(i)
    \/ \E i \in ProcIds : create_commit_review(i)
    \/ \E i \in ProcIds : create_select_avg(i)
    \/ \E i \in ProcIds : create_commit_rating(i)
    \/ \E i \in ProcIds, u \in SpecCallers, review_id \in ReviewIdInputsC :
          delete_select_review(i, u, review_id)
    \/ \E i \in ProcIds : delete_select_user(i)
    \/ \E i \in ProcIds : delete_commit_review(i)
    \/ \E i \in ProcIds : delete_select_avg(i)
    \/ \E i \in ProcIds : delete_commit_rating(i)

SpecC == Init /\ [][NextC]_vars

\* ------------------------------------------------------------- properties
Abs(x) == IF x < 0 THEN 0 - x ELSE x

\* The active reviews of product p in table rs, and the sum of their grades.
ActiveOf(rs, p) ==
    { i \in DOMAIN rs : rs[i].is_active /\ rs[i].product_id = p }

RECURSIVE GradeSum(_, _)
GradeSum(rs, I) ==
    IF I = {} THEN 0
    ELSE LET i == CHOOSE k \in I : TRUE
         IN  rs[i].grade + GradeSum(rs, I \ { i })

GradesOf(rs, p) == { rs[i].grade : i \in ActiveOf(rs, p) }

\* v is the mean of p's active grades rounded to the nearest integer, an
\* exact half to the even neighbour; None when p has no active review.
IsRoundedMean(v, rs, p) ==
    LET n == Cardinality(ActiveOf(rs, p))
        s == GradeSum(rs, ActiveOf(rs, p))
    IN  IF n = 0 THEN v = None
        ELSE \E r \in 0 .. 6 :
                /\ v = Some(r)
                /\ 2 * Abs(r * n - s) <= n
                /\ (2 * Abs(r * n - s) = n => r % 2 = 0)

ProductActive(product_id) ==
    \E p \in Products : p.id = product_id /\ p.is_active

ActiveReviewFor(rs, user_id, product_id) ==
    \E i \in DOMAIN rs :
        rs[i].is_active /\ rs[i].user_id = user_id /\ rs[i].product_id = product_id

Succeeded(r) ==
    \/ r.op = "create" /\ r.status = 201
    \/ r.op = "delete" /\ r.status = 200

Same == reviews' = reviews /\ rating' = rating

\* C1: in a sequential execution, after each successful create or delete
\* affecting product p, p's stored rating is the rounded mean of the grades
\* of p's active reviews, and null when p has no active review.
C1_RatingAfterSuccess ==
    Succeeded(last) =>
        LET p == reviews[last.review_id].product_id
        IN  IsRoundedMean(rating[p], reviews, p)

\* C1 witness: the only active review of a product has just been
\* soft-deleted and the product's rating is null.
C1_Witness ==
    /\ last.op = "delete" /\ last.status = 200
    /\ ActiveOf(reviews, reviews[last.review_id].product_id) = {}
    /\ rating[reviews[last.review_id].product_id] = None

AtMostOneActive ==
    \A i, j \in DOMAIN reviews :
        ( /\ reviews[i].is_active /\ reviews[j].is_active
          /\ reviews[i].user_id = reviews[j].user_id
          /\ reviews[i].product_id = reviews[j].product_id ) => i = j

\* C2 (as stated): in every reachable state, interleaved create_review
\* requests included, each (user_id, product_id) pair has at most one
\* active review.
C2_AtMostOneActiveAlways == AtMostOneActive

\* C2 (amended): as long as no request has started while another was in
\* flight, each (user_id, product_id) pair has at most one active review.
C2_AtMostOneActiveSequential ==
    ~hist.overlapped => AtMostOneActive

\* C2 witness: without any overlap, a create was refused with 409 while a
\* review is stored.
C2_Witness ==
    /\ ~hist.overlapped
    /\ Len(reviews) >= 1
    /\ \E i \in ProcIds : procs[i] = Done("create", 409)

\* C3: create_review for an active product with a grade in [1,5] fails with
\* 409 if and only if the caller has an active review for that same product.
C3_ConflictIffActiveForProduct ==
    [][ ( /\ last'.op = "create"
          /\ ProductActive(last'.review.product_id)
          /\ last'.review.grade \in 1 .. 5 )
        => ( last'.status = 409
               <=> ActiveReviewFor(reviews, last'.user.id, last'.review.product_id) )
      ]_vars

\* C4: every stored review has a grade in [1,5] and is stored active; a
\* create with a grade outside [1,5] stores nothing and changes no rating;
\* grades 1 and 5 are accepted when the product is active and the caller
\* has no active review for it.
C4_GradeBounds ==
    [][ last'.op = "create" =>
          /\ \A i \in DOMAIN reviews' :
                /\ reviews'[i].grade \in 1 .. 5
                /\ (i > Len(reviews) => reviews'[i].is_active)
          /\ last'.review.grade \notin 1 .. 5 => (last'.status # 201 /\ Same)
          /\ ( /\ last'.review.grade \in { 1, 5 }
               /\ ProductActive(last'.review.product_id)
               /\ ~ActiveReviewFor(reviews, last'.user.id, last'.review.product_id) )
             => last'.status = 201
      ]_vars

C6_DeleteNotFound ==
    [][ ( /\ last'.op = "delete"
          /\ \/ last'.review_id \notin DOMAIN reviews
             \/ ~reviews[last'.review_id].is_active )
        => last'.status = 404 /\ Same
      ]_vars

\* C6 witness: the author's delete of a review that is already inactive
\* has just been answered 404.
C6_Witness ==
    /\ last.op = "delete" /\ last.status = 404
    /\ last.review_id \in DOMAIN reviews
    /\ ~reviews[last.review_id].is_active
    /\ reviews[last.review_id].user_id = last.user.id

\* C7: create_review for a product that does not exist or is inactive
\* answers 404 whatever the grade and the caller's reviews are, stores no
\* review and changes no rating.
C7_CreateProductNotFound ==
    [][ ( last'.op = "create" /\ ~ProductActive(last'.review.product_id) )
        => last'.status = 404 /\ Same
      ]_vars

\* C7 witness: a create for the inactive product, with a grade out of
\* range and by a caller who has an active review, was answered 404.
C7_Witness ==
    /\ last.op = "create" /\ last.status = 404
    /\ last.review.product_id \in ProductIds
    /\ last.review.grade \notin 1 .. 5
    /\ \E i \in DOMAIN reviews :
          reviews[i].is_active /\ reviews[i].user_id = last.user.id

\* C8: the stored rating is the mean of the active grades rounded to the
\* nearest integer, an exact half to the even integer: 4 for {4, 5}, 4 for
\* {3, 4}, 2 for {1, 2}; it is an integer in [1,5] when a review is active.
C8_RoundHalfToEven ==
    \A p \in ProductIds :
        LET n == Cardinality(ActiveOf(reviews, p))
            g == GradesOf(reviews, p)
        IN  n > 0 =>
              /\ IsRoundedMean(rating[p], reviews, p)
              /\ \E r \in 1 .. 5 : rating[p] = Some(r)
              /\ (n = 2 /\ g = { 4, 5 }) => rating[p] = Some(4)
              /\ (n = 2 /\ g = { 3, 4 }) => rating[p] = Some(4)
              /\ (n = 2 /\ g = { 1, 2 }) => rating[p] = Some(2)

\* C8 witness: the active grades of product 1 are 4 and 5, and its rating
\* has been recomputed by a delete of a third review.
C8_Witness ==
    /\ Cardinality(ActiveOf(reviews, 1)) = 2
    /\ GradesOf(reviews, 1) = { 4, 5 }
    /\ last.op = "delete" /\ last.status = 200
    /\ rating[1] = Some(4)

\* C9: a stored review stays stored with its id, user_id, product_id, grade
\* and comment; is_active only goes from true to false; a successful delete
\* changes is_active of exactly the review it names.
C9_ReviewsImmutable ==
    [][ /\ Len(reviews') >= Len(reviews)
        /\ \A i \in DOMAIN reviews :
              /\ reviews'[i].id = reviews[i].id
              /\ reviews'[i].user_id = reviews[i].user_id
              /\ reviews'[i].product_id = reviews[i].product_id
              /\ reviews'[i].grade = reviews[i].grade
              /\ reviews'[i].comment = reviews[i].comment
              /\ reviews'[i].is_active => reviews[i].is_active
        /\ (last'.op = "delete" /\ last'.status = 200) =>
              { i \in DOMAIN reviews : reviews'[i].is_active # reviews[i].is_active }
                 = { last'.review_id }
        /\ last'.op = "list" => reviews' = reviews
      ]_vars

\* C9 witness: a review has just been deleted while another review of the
\* same product is still active.
C9_Witness ==
    /\ last.op = "delete" /\ last.status = 200
    /\ ActiveOf(reviews, reviews[last.review_id].product_id) # {}

AllQuiet == \A i \in ProcIds : ~InFlight(i)

Stale(p) == ~IsRoundedMean(rating[p], reviews, p)

\* C10: with requests interleaved statement by statement, a state where
\* every request has completed and a product's rating is not the rounded
\* mean of its active grades is reachable (C10_Witness), and in every such
\* state requests have overlapped and the rating written last was computed
\* from a read older than the last commit that changed the product's reviews.
C10_StaleByOlderRead ==
    \A p \in ProductIds :
        (AllQuiet /\ Stale(p)) =>
            hist.overlapped /\ hist.written[p] < hist.changed[p]

\* C10 witness: every request has completed and the rating of a product
\* with an active review is stale.
C10_Witness ==
    /\ AllQuiet
    /\ \E p \in ProductIds : Stale(p) /\ ActiveOf(reviews, p) # {}

====
